---- MODULE Spec2Model ----
(***************************************************************************)
(* Model of the coordinate core of screeps-game-api                        *)
(* (src/local/room_coordinate.rs) and of the progression formulas          *)
(* (src/constants/math.rs).                                                *)
(*                                                                         *)
(* The library is a set of pure functions over small value types.  Each    *)
(* function is an operator, computed as the code computes it; each call is *)
(* an action that records the call in `ret` and stores the value it        *)
(* produced in the register of its type, so that later calls can consume   *)
(* it.  A Rust Result is a record [kind, val] with kind "ok" or "err"; a   *)
(* panic is kind "panic".                                                  *)
(***************************************************************************)
EXTENDS Integers, Sequences, FiniteSets

VARIABLES
    build,   \* cargo profile: "debug" (debug_assertions, overflow-checks) or "release"
    input,   \* the raw argument handed in by the caller of a single-call specification
    coord,   \* a RoomCoordinate that exists (its inner u8)
    pos,     \* a RoomXY that exists, [x |-> RoomCoordinate, y |-> RoomCoordinate]
    index,   \* a usize linear index that exists
    wire,    \* the last output of Serialize for RoomXY
    ret      \* the last call: [op, arg, kind, val]

vars == <<build, input, coord, pos, index, wire, ret>>

(***************************************************************************)
(* Bounds of the model.                                                    *)
(***************************************************************************)
\* how many values on each side of the ROOM_SIZE and ROOM_AREA boundaries the
\* multi-call specification feeds to the checked operations
ProbeSlack == 1
\* how far past ROOM_AREA the indices handed to linear_index_to_xy go
IndexSlack == 20
\* the levels 0 .. MaxLevel are fed to the progression formulas, beside the
\* levels of the repository's tests
MaxLevel == 40

(***************************************************************************)
(* Program constants and machine types.                                    *)
(***************************************************************************)
ROOM_SIZE == 50

ROOM_AREA == ROOM_SIZE * ROOM_SIZE

U8 == 0 .. (2^8 - 1)

U16 == 0 .. (2^16 - 1)

Builds == {"debug", "release"}

Ok(v) == [kind |-> "ok", val |-> v]

Err(v) == [kind |-> "err", val |-> v]

Panic == [kind |-> "panic", val |-> <<>>]

\* `expr as u8`: truncation to the low 8 bits
as_u8(n) == n % (2^8)

(***************************************************************************)
(* RoomCoordinate                                                          *)
(***************************************************************************)
RoomCoordinate_new_inclusive(c) ==
    IF c <= ROOM_SIZE THEN Ok(c) ELSE Err(c)

RoomCoordinate_new(c) ==
    IF c < ROOM_SIZE THEN Ok(c) ELSE Err(c)

RoomCoordinate_unchecked_new_no_assert(c, b) == Ok(c)

\* debug_assert! is compiled only with debug_assertions; without it the
\* out-of-range value is stored as it is
RoomCoordinate_unchecked_new(c, b) ==
    IF b = "debug" /\ ~(c < ROOM_SIZE) THEN Panic ELSE Ok(c)

RoomCoordinate_try_from(c) == RoomCoordinate_new(c)

RoomCoordinate_default == 0

(***************************************************************************)
(* RoomXY                                                                  *)
(***************************************************************************)
RoomXY(x, y) == [x |-> x, y |-> y]

RoomXY_default == RoomXY(RoomCoordinate_default, RoomCoordinate_default)

RoomXY_try_from_x_only(xy) ==
    LET x == RoomCoordinate_try_from(xy[1])
    IN  IF x.kind = "err" THEN x ELSE Ok(RoomXY(x.val, xy[2]))

\* the `?` on x returns its error before y is looked at
RoomXY_try_from(xy) ==
    LET x == RoomCoordinate_try_from(xy[1])
        y == RoomCoordinate_try_from(xy[2])
    IN  IF x.kind = "err" THEN x
        ELSE IF y.kind = "err" THEN y
        ELSE Ok(RoomXY(x.val, y.val))

RoomXY_from(cs) == RoomXY(cs[1], cs[2])

\* x is constructed before y; the debug assertion of either aborts the call
RoomXY_unchecked_new(x, y, b) ==
    LET cx == RoomCoordinate_unchecked_new(x, b)
        cy == RoomCoordinate_unchecked_new(y, b)
    IN  IF cx.kind = "panic" \/ cy.kind = "panic" THEN Panic
        ELSE Ok(RoomXY(cx.val, cy.val))

xy_to_linear_index_y_major(xy) == (xy.y * ROOM_SIZE) + xy.x

xy_to_linear_index(xy) == (xy.x * ROOM_SIZE) + xy.y

linear_index_to_xy_debug_assert(idx, b) ==
    IF b = "debug" /\ ~(idx < ROOM_AREA) THEN Panic
    ELSE LET x == RoomCoordinate_unchecked_new(as_u8(idx \div ROOM_SIZE), b)
             y == RoomCoordinate_unchecked_new(as_u8(idx % ROOM_SIZE), b)
         IN  IF x.kind = "panic" \/ y.kind = "panic" THEN Panic
             ELSE Ok(RoomXY(x.val, y.val))

\* assert! is compiled in every profile
linear_index_to_xy(idx, b) ==
    IF ~(idx < ROOM_AREA) THEN Panic
    ELSE LET x == RoomCoordinate_unchecked_new(as_u8(idx \div ROOM_SIZE), b)
             y == RoomCoordinate_unchecked_new(as_u8(idx % ROOM_SIZE), b)
         IN  IF x.kind = "panic" \/ y.kind = "panic" THEN Panic
             ELSE Ok(RoomXY(x.val, y.val))

(***************************************************************************)
(* Bit operations of the packed encoding, on unsigned 16-bit values.       *)
(***************************************************************************)
RECURSIVE BitOr(_, _)
BitOr(a, b) ==
    IF a = 0 THEN b
    ELSE IF b = 0 THEN a
    ELSE (IF a % 2 = 1 \/ b % 2 = 1 THEN 1 ELSE 0) + 2 * BitOr(a \div 2, b \div 2)

RECURSIVE BitAnd(_, _)
BitAnd(a, b) ==
    IF a = 0 \/ b = 0 THEN 0
    ELSE (IF a % 2 = 1 /\ b % 2 = 1 THEN 1 ELSE 0) + 2 * BitAnd(a \div 2, b \div 2)

\* u16 `v << k`: the bits shifted past bit 15 are lost
Shl16(v, k) == (v * (2^k)) % (2^16)

Shr16(v, k) == v \div (2^k)

(***************************************************************************)
(* Serialize / Deserialize for RoomXY.  Serialized data is tagged with the *)
(* format's is_human_readable() flag: [human |-> TRUE, x, y] is the        *)
(* ReadableXY struct with its two u8 fields, [human |-> FALSE, packed]     *)
(* the u16.                                                                *)
(***************************************************************************)
Readable(x, y) == [human |-> TRUE, x |-> x, y |-> y]

Packed(p) == [human |-> FALSE, packed |-> p]

RoomXY_serialize_y_high(xy, human) ==
    IF human
    THEN Ok(Readable(xy.x, xy.y))
    ELSE Ok(Packed(BitOr(Shl16(xy.y, 8), xy.x)))

RoomXY_serialize_always_packed(xy, human) ==
    Ok(Packed(BitOr(Shl16(xy.x, 8), xy.y)))

RoomXY_serialize(xy, human) ==
    IF human
    THEN Ok(Readable(xy.x, xy.y))
    ELSE Ok(Packed(BitOr(Shl16(xy.x, 8), xy.y)))

\* derived Deserialize of ReadableXY: each field is a RoomCoordinate read
\* through try_from = "u8", x before y
ReadableXY_deserialize(w) ==
    LET x == RoomCoordinate_try_from(w.x)
        y == RoomCoordinate_try_from(w.y)
    IN  IF x.kind = "err" THEN x
        ELSE IF y.kind = "err" THEN y
        ELSE Ok(RoomXY(x.val, y.val))

RoomXY_deserialize_whole_value(w) ==
    IF w.human
    THEN ReadableXY_deserialize(w)
    ELSE LET xy == <<as_u8(BitAnd(Shr16(w.packed, 8), 255)), as_u8(BitAnd(w.packed, 255))>>
             r  == RoomXY_try_from(xy)
         IN  IF r.kind = "err" THEN Err(w.packed) ELSE r

RoomXY_deserialize_mask_7f(w) ==
    IF w.human
    THEN ReadableXY_deserialize(w)
    ELSE LET xy == <<as_u8(BitAnd(Shr16(w.packed, 8), 255)), as_u8(BitAnd(w.packed, 127))>>
         IN  RoomXY_try_from(xy)

\* the error of the packed branch is built from err.0, the byte that
\* RoomXY::try_from rejected
RoomXY_deserialize(w) ==
    IF w.human
    THEN ReadableXY_deserialize(w)
    ELSE LET xy == <<as_u8(BitAnd(Shr16(w.packed, 8), 255)), as_u8(BitAnd(w.packed, 255))>>
         IN  RoomXY_try_from(xy)

(***************************************************************************)
(* Calls.                                                                  *)
(***************************************************************************)
Call(op, arg, res) == [op |-> op, arg |-> arg, kind |-> res.kind, val |-> res.val]

NoCall == [op |-> "none", arg |-> <<>>, kind |-> "none", val |-> <<>>]

New(v) ==
    LET r == RoomCoordinate_new(v)
    IN  /\ ret' = Call("new", v, r)
        /\ coord' = IF r.kind = "ok" THEN r.val ELSE coord
        /\ UNCHANGED <<build, input, pos, index, wire>>

TryFromU8(v) ==
    LET r == RoomCoordinate_try_from(v)
    IN  /\ ret' = Call("try_from_u8", v, r)
        /\ coord' = IF r.kind = "ok" THEN r.val ELSE coord
        /\ UNCHANGED <<build, input, pos, index, wire>>

TryFromPair(xy) ==
    LET r == RoomXY_try_from(xy)
    IN  /\ ret' = Call("try_from_pair", xy, r)
        /\ pos' = IF r.kind = "ok" THEN r.val ELSE pos
        /\ UNCHANGED <<build, input, coord, index, wire>>

\* From<(RoomCoordinate, RoomCoordinate)>: both arguments are coordinates
\* that exist already
FromCoords(a, b) ==
    /\ ret' = Call("from_coords", <<a, b>>, Ok(RoomXY_from(<<a, b>>)))
    /\ pos' = RoomXY_from(<<a, b>>)
    /\ UNCHANGED <<build, input, coord, index, wire>>

DefaultCoord ==
    /\ ret' = Call("default_coord", <<>>, Ok(RoomCoordinate_default))
    /\ coord' = RoomCoordinate_default
    /\ UNCHANGED <<build, input, pos, index, wire>>

DefaultXY ==
    /\ ret' = Call("default_xy", <<>>, Ok(RoomXY_default))
    /\ pos' = RoomXY_default
    /\ UNCHANGED <<build, input, coord, index, wire>>

XyToLinearIndex ==
    /\ ret' = Call("xy_to_linear_index", pos, Ok(xy_to_linear_index(pos)))
    /\ index' = xy_to_linear_index(pos)
    /\ UNCHANGED <<build, input, coord, pos, wire>>

LinearIndexToXy(idx) ==
    LET r == linear_index_to_xy(idx, build)
    IN  /\ ret' = Call("linear_index_to_xy", idx, r)
        /\ pos' = IF r.kind = "ok" THEN r.val ELSE pos
        /\ UNCHANGED <<build, input, coord, index, wire>>

Serialize(human) ==
    LET r == RoomXY_serialize(pos, human)
    IN  /\ ret' = Call("serialize", [xy |-> pos, human |-> human], r)
        /\ wire' = <<r.val>>
        /\ UNCHANGED <<build, input, coord, pos, index>>

Deserialize(w) ==
    LET r == RoomXY_deserialize(w)
    IN  /\ ret' = Call("deserialize", w, r)
        /\ pos' = IF r.kind = "ok" THEN r.val ELSE pos
        /\ UNCHANGED <<build, input, coord, index, wire>>

(***************************************************************************)
(* Spec: any sequence of calls of the safe API.  Raw arguments come from   *)
(* probe sets around the boundaries; coordinate arguments are coordinates  *)
(* that exist.                                                             *)
(***************************************************************************)
ProbeU8 ==
    {0} \cup ((ROOM_SIZE - ProbeSlack) .. (ROOM_SIZE + ProbeSlack - 1)) \cup {2^8 - 1}

ProbeIndex ==
    {0} \cup ((ROOM_SIZE - ProbeSlack) .. (ROOM_SIZE + ProbeSlack - 1))
        \cup ((ROOM_AREA - ProbeSlack) .. (ROOM_AREA + ProbeSlack - 1))

ProbeWire ==
    {Packed(BitOr(Shl16(a, 8), b)) : a \in ProbeU8, b \in ProbeU8}
        \cup {Readable(a, b) : a \in ProbeU8, b \in ProbeU8}

Registers ==
    /\ coord = RoomCoordinate_default
    /\ pos = RoomXY_default
    /\ index = 0
    /\ wire = <<>>
    /\ ret = NoCall

Init ==
    /\ build \in Builds
    /\ input = <<>>
    /\ Registers

Next ==
    \/ \E v \in ProbeU8 : New(v)
    \/ \E v \in ProbeU8 : TryFromU8(v)
    \/ \E a \in ProbeU8, b \in ProbeU8 : TryFromPair(<<a, b>>)
    \/ \E a \in {coord, pos.x, pos.y}, b \in {coord, pos.x, pos.y} : FromCoords(a, b)
    \/ DefaultCoord
    \/ DefaultXY
    \/ \E i \in ProbeIndex : LinearIndexToXy(i)
    \/ \E w \in ProbeWire : Deserialize(w)

Spec == Init /\ [][Next]_vars

(***************************************************************************)
(* SpecCoord: one checked construction, over every u8.                     *)
(***************************************************************************)
InitCoord ==
    /\ build \in Builds
    /\ input \in U8
    /\ Registers

NextCoord ==
    \/ New(input)
    \/ TryFromU8(input)

SpecCoord == InitCoord /\ [][NextCoord]_vars

\* every RoomXY the checked conversion builds from a pair of bytes
ValidXY ==
    {r.val : r \in {q \in {RoomXY_try_from(<<a, b>>) : a \in U8, b \in U8} : q.kind = "ok"}}

(***************************************************************************)
(* SpecIndex: the two index conversions, from every valid position and     *)
(* from every index up to IndexSlack past ROOM_AREA, and two large ones.   *)
(***************************************************************************)
InitIndex ==
    /\ build \in Builds
    /\ input = <<>>
    /\ coord = RoomCoordinate_default
    /\ wire = <<>>
    /\ ret = NoCall
    /\ \/ pos \in ValidXY /\ index = 0
       \/ pos = RoomXY_default
          /\ index \in (0 .. (ROOM_AREA + IndexSlack)) \cup {2^16, 2^30}

NextIndex ==
    \/ XyToLinearIndex
    \/ LinearIndexToXy(index)

SpecIndex == InitIndex /\ [][NextIndex]_vars

(***************************************************************************)
(* SpecWire: serialization of every valid position in either mode, and     *)
(* deserialization of what was written.                                    *)
(***************************************************************************)
InitWire ==
    /\ build \in Builds
    /\ input = <<>>
    /\ coord = RoomCoordinate_default
    /\ index = 0
    /\ wire = <<>>
    /\ ret = NoCall
    /\ pos \in ValidXY

NextWire ==
    \/ \E human \in BOOLEAN : Serialize(human)
    \/ wire # <<>> /\ Deserialize(wire[1])

SpecWire == InitWire /\ [][NextWire]_vars

(***************************************************************************)
(* SpecDecode: compact-mode deserialization of every u16.                  *)
(***************************************************************************)
InitDecode ==
    /\ build \in Builds
    /\ input \in U16
    /\ Registers

NextDecode == Deserialize(Packed(input))

SpecDecode == InitDecode /\ [][NextDecode]_vars

(***************************************************************************)
(* Unsigned integers wider than the checker's own: a number is the         *)
(* sequence of its base-2^8 digits, least significant first, without       *)
(* leading zero digits.  A u32 has at most 4 digits, a u64 8, a u128 16.   *)
(***************************************************************************)
RECURSIVE Norm(_)
Norm(a) ==
    IF a = <<>> THEN <<>>
    ELSE IF a[Len(a)] = 0 THEN Norm(SubSeq(a, 1, Len(a) - 1))
    ELSE a

RECURSIVE FromNat(_)
FromNat(n) == IF n = 0 THEN <<>> ELSE <<n % (2^8)>> \o FromNat(n \div (2^8))

RECURSIVE AddC(_, _, _)
AddC(a, b, c) ==
    IF a = <<>> /\ b = <<>>
    THEN FromNat(c)
    ELSE LET x == IF a = <<>> THEN 0 ELSE Head(a)
             y == IF b = <<>> THEN 0 ELSE Head(b)
             s == x + y + c
         IN  <<s % (2^8)>>
                 \o AddC(IF a = <<>> THEN a ELSE Tail(a),
                         IF b = <<>> THEN b ELSE Tail(b),
                         s \div (2^8))

RECURSIVE MulSmall(_, _, _)
MulSmall(a, k, c) ==
    IF a = <<>>
    THEN FromNat(c)
    ELSE LET s == (Head(a) * k) + c
         IN  <<s % (2^8)>> \o MulSmall(Tail(a), k, s \div (2^8))

RECURSIVE MulExact(_, _)
MulExact(a, b) ==
    IF b = <<>> THEN <<>>
    ELSE Norm(AddC(MulSmall(a, Head(b), 0), <<0>> \o MulExact(a, Tail(b)), 0))

\* a number written in decimal, three digits a group, most significant first
RECURSIVE Dec(_)
Dec(g) ==
    IF g = <<>> THEN <<>>
    ELSE Norm(AddC(MulSmall(Dec(SubSeq(g, 1, Len(g) - 1)), 1000, 0), FromNat(g[Len(g)]), 0))

Fits(a, bits) == Len(a) <= bits \div 8

Wrap(a, bits) == Norm(SubSeq(a, 1, IF Fits(a, bits) THEN Len(a) ELSE bits \div 8))

RECURSIVE Less(_, _)
Less(a, b) ==
    IF Len(a) # Len(b) THEN Len(a) < Len(b)
    ELSE IF a = <<>> THEN FALSE
    ELSE IF a[Len(a)] # b[Len(b)] THEN a[Len(a)] < b[Len(b)]
    ELSE Less(Norm(SubSeq(a, 1, Len(a) - 1)), Norm(SubSeq(b, 1, Len(b) - 1)))

\* a - b modulo 2^bits, digit by digit with borrow
RECURSIVE SubB(_, _, _, _)
SubB(a, b, n, borrow) ==
    IF n = 0 THEN <<>>
    ELSE LET x == IF a = <<>> THEN 0 ELSE Head(a)
             y == IF b = <<>> THEN 0 ELSE Head(b)
             d == x - y - borrow
         IN  <<d % (2^8)>>
                 \o SubB(IF a = <<>> THEN a ELSE Tail(a),
                         IF b = <<>> THEN b ELSE Tail(b),
                         n - 1,
                         IF d < 0 THEN 1 ELSE 0)

\* an arithmetic result of the given width: the value modulo 2^bits and
\* whether the exact value did not fit
Arith(v, overflow) == [v |-> v, overflow |-> overflow]

Sub(a, b, bits) == Arith(Norm(SubB(a, b, bits \div 8, 0)), Less(a, b))

Mul(a, b, bits) == Arith(Wrap(MulExact(a, b), bits), ~Fits(MulExact(a, b), bits))

\* core::num `pow`: exponentiation by squaring, every product in the
\* integer's own width
RECURSIVE PowLoop(_, _, _, _, _)
PowLoop(base, exp, acc, overflow, bits) ==
    LET accm  == IF exp % 2 = 1 THEN Mul(acc, base, bits) ELSE Arith(acc, FALSE)
        basem == Mul(base, base, bits)
    IN  IF exp % 2 = 1 /\ exp = 1
        THEN Arith(accm.v, overflow \/ accm.overflow)
        ELSE PowLoop(basem.v, exp \div 2, accm.v,
                     overflow \/ accm.overflow \/ basem.overflow, bits)

Pow(base, exp, bits) ==
    IF exp = 0 THEN Arith(FromNat(1), FALSE)
    ELSE PowLoop(base, exp, FromNat(1), FALSE, bits)

\* an overflowing operation panics with overflow-checks (the debug profile)
\* and wraps without them (the release profile)
Checked(r, b) == IF r.overflow /\ b = "debug" THEN Panic ELSE Ok(r.v)

(***************************************************************************)
(* Progression formulas.                                                   *)
(***************************************************************************)
POWER_LEVEL_POW == 2

POWER_LEVEL_MULTIPLY == 1000

\* The f64 that is returned is (level - 1).powf(GCL_POW) * GCL_MULTIPLY; the
\* model keeps the u32 operand level - 1 that f64::from converts exactly,
\* and does not evaluate the floating-point power.
control_points_for_gcl(level, b) == Checked(Sub(level, FromNat(1), 32), b)

power_for_gpl_width(level, b, bits) ==
    LET p == Pow(level, POWER_LEVEL_POW, bits)
        m == Mul(p.v, FromNat(POWER_LEVEL_MULTIPLY), bits)
    IN  IF p.overflow /\ b = "debug" THEN Panic
        ELSE Checked(m, b)

power_for_gpl_u64(level, b) == power_for_gpl_width(level, b, 64)

power_for_gpl(level, b) == power_for_gpl_width(level, b, 128)

ControlPointsForGcl(level) ==
    /\ ret' = Call("control_points_for_gcl", level, control_points_for_gcl(level, build))
    /\ UNCHANGED <<build, input, coord, pos, index, wire>>

PowerForGpl(level) ==
    /\ ret' = Call("power_for_gpl", level, power_for_gpl(level, build))
    /\ UNCHANGED <<build, input, coord, pos, index, wire>>

\* the levels and values asserted by test::gpl_formula, in decimal
GplTable ==
    { <<Dec(<<0>>), Dec(<<0>>)>>,
      <<Dec(<<1>>), Dec(<<1, 000>>)>>,
      <<Dec(<<2>>), Dec(<<4, 000>>)>>,
      <<Dec(<<3>>), Dec(<<9, 000>>)>>,
      <<Dec(<<4>>), Dec(<<16, 000>>)>>,
      <<Dec(<<5>>), Dec(<<25, 000>>)>>,
      <<Dec(<<6>>), Dec(<<36, 000>>)>>,
      <<Dec(<<7>>), Dec(<<49, 000>>)>>,
      <<Dec(<<8>>), Dec(<<64, 000>>)>>,
      <<Dec(<<9>>), Dec(<<81, 000>>)>>,
      <<Dec(<<10>>), Dec(<<100, 000>>)>>,
      <<Dec(<<50>>), Dec(<<2, 500, 000>>)>>,
      <<Dec(<<100>>), Dec(<<10, 000, 000>>)>>,
      <<Dec(<<1, 000>>), Dec(<<1, 000, 000, 000>>)>>,
      <<Dec(<<5, 000>>), Dec(<<25, 000, 000, 000>>)>>,
      <<Dec(<<10, 000>>), Dec(<<100, 000, 000, 000>>)>>,
      <<Dec(<<50, 000>>), Dec(<<2, 500, 000, 000, 000>>)>>,
      <<Dec(<<100, 000>>), Dec(<<10, 000, 000, 000, 000>>)>>,
      <<Dec(<<1, 000, 000>>), Dec(<<1, 000, 000, 000, 000, 000>>)>>,
      <<Dec(<<5, 000, 000>>), Dec(<<25, 000, 000, 000, 000, 000>>)>>,
      <<Dec(<<10, 000, 000>>), Dec(<<100, 000, 000, 000, 000, 000>>)>>,
      <<Dec(<<100, 000, 000>>), Dec(<<10, 000, 000, 000, 000, 000, 000>>)>>,
      <<Dec(<<135, 818, 791>>), Dec(<<18, 446, 743, 988, 701, 681, 000>>)>>,
      <<Dec(<<135, 818, 792>>), Dec(<<18, 446, 744, 260, 339, 264, 000>>)>>,
      <<Dec(<<1, 000, 000, 000>>), Dec(<<1, 000, 000, 000, 000, 000, 000, 000>>)>>,
      <<Dec(<<4, 000, 000, 000>>), Dec(<<16, 000, 000, 000, 000, 000, 000, 000>>)>>,
      <<Dec(<<4, 294, 967, 295>>), Dec(<<18, 446, 744, 065, 119, 617, 025, 000>>)>> }

U32_MAX == Dec(<<4, 294, 967, 295>>)

(***************************************************************************)
(* SpecMath: one call of a progression formula, on the levels 0..MaxLevel  *)
(* and on the levels of the tests.                                         *)
(***************************************************************************)
Levels == {FromNat(n) : n \in 0 .. MaxLevel} \cup {t[1] : t \in GplTable}

InitMath ==
    /\ build \in Builds
    /\ input \in Levels
    /\ Registers

NextMath ==
    \/ ControlPointsForGcl(input)
    \/ PowerForGpl(input)

SpecMath == InitMath /\ [][NextMath]_vars

(***************************************************************************)
(* SpecUnchecked: one call of an unchecked constructor, on every u8 and    *)
(* every pair of u8, or one call of linear_index_to_xy, which constructs   *)
(* its two coordinates through RoomCoordinate::unchecked_new.              *)
(***************************************************************************)
UncheckedNew(v) ==
    LET r == RoomCoordinate_unchecked_new(v, build)
    IN  /\ ret' = Call("unchecked_new", v, r)
        /\ coord' = IF r.kind = "ok" THEN r.val ELSE coord
        /\ UNCHANGED <<build, input, pos, index, wire>>

UncheckedNewXY(x, y) ==
    LET r == RoomXY_unchecked_new(x, y, build)
    IN  /\ ret' = Call("unchecked_new_xy", <<x, y>>, r)
        /\ pos' = IF r.kind = "ok" THEN r.val ELSE pos
        /\ UNCHANGED <<build, input, coord, index, wire>>

InitUnchecked ==
    /\ build \in Builds
    /\ coord = RoomCoordinate_default
    /\ pos = RoomXY_default
    /\ wire = <<>>
    /\ ret = NoCall
    /\ \/ input \in {<<v>> : v \in U8} \cup (U8 \X U8) /\ index = 0
       \/ input = <<>> /\ index \in 0 .. (ROOM_AREA + IndexSlack)

NextUnchecked ==
    \/ Len(input) = 1 /\ UncheckedNew(input[1])
    \/ Len(input) = 2 /\ UncheckedNewXY(input[1], input[2])
    \/ Len(input) = 0 /\ LinearIndexToXy(index)

SpecUnchecked == InitUnchecked /\ [][NextUnchecked]_vars

(***************************************************************************)
(* Properties.                                                             *)
(***************************************************************************)

\* C1: RoomCoordinate::new(v), and TryFrom<u8> which delegates to it, returns
\* Ok of a coordinate of value v iff v < ROOM_SIZE, and Err(OutOfBoundsError(v))
\* carrying exactly v otherwise; with ROOM_SIZE = 50, 49 is accepted and 50 is
\* rejected with OutOfBounds(50).  Checked under SpecCoord, for every u8.
C1_CheckedNew ==
    ret.op \in {"new", "try_from_u8"} =>
        /\ ret.kind \in {"ok", "err"}
        /\ ret.kind = "ok" <=> ret.arg < ROOM_SIZE
        /\ ret.kind = "ok" => ret.val = ret.arg /\ coord = ret.arg
        /\ ret.kind = "err" => ret.val = ret.arg
        /\ ret.arg = 49 => ret.kind = "ok"
        /\ ret.arg = 50 => ret.kind = "err" /\ ret.val = 50

C1_Witness ==
    /\ ret.op = "try_from_u8"
    /\ ret.arg = 50
    /\ ret.kind = "err"
    /\ ret.val = 50

\* C2: after any sequence of calls of the safe API, the RoomCoordinate that
\* exists is < ROOM_SIZE, both fields of the RoomXY that exists are
\* < ROOM_SIZE, and no successful call has returned a value out of range.
\* Checked under Spec.
C2_InRange ==
    /\ coord < ROOM_SIZE
    /\ pos.x < ROOM_SIZE
    /\ pos.y < ROOM_SIZE
    /\ ret.kind = "ok" /\ ret.op \in {"new", "try_from_u8", "default_coord"} =>
           ret.val < ROOM_SIZE
    /\ ret.kind = "ok"
           /\ ret.op \in {"try_from_pair", "from_coords", "default_xy",
                          "linear_index_to_xy", "deserialize"} =>
           ret.val.x < ROOM_SIZE /\ ret.val.y < ROOM_SIZE

C2_Witness ==
    /\ ret.op = "from_coords"
    /\ coord = ROOM_SIZE - 1
    /\ pos = RoomXY(ROOM_SIZE - 1, ROOM_SIZE - 1)

\* C3: xy_to_linear_index and linear_index_to_xy are mutually inverse between
\* the valid positions and [0, ROOM_AREA): the index of p is
\* p.x * ROOM_SIZE + p.y, it is < ROOM_AREA, linear_index_to_xy takes it back
\* to p, and xy_to_linear_index takes the position of an index i < ROOM_AREA
\* back to i.  Checked under SpecIndex.
C3_IndexBijection ==
    /\ ret.op = "xy_to_linear_index" =>
           /\ ret.val = (ret.arg.x * ROOM_SIZE) + ret.arg.y
           /\ ret.val \div ROOM_SIZE = ret.arg.x
           /\ ret.val >= 0
           /\ ret.val < ROOM_AREA
           /\ index = ret.val
           /\ linear_index_to_xy(ret.val, build) = Ok(ret.arg)
    /\ ret.op = "linear_index_to_xy" /\ ret.arg < ROOM_AREA =>
           /\ ret.kind = "ok"
           /\ pos = ret.val
           /\ xy_to_linear_index(ret.val) = ret.arg

C3_Witness ==
    /\ ret.op = "linear_index_to_xy"
    /\ ret.kind = "ok"
    /\ ret.arg = index
    /\ index = (7 * ROOM_SIZE) + 49
    /\ pos = RoomXY(7, 49)

\* C4: in each of the two modes, serializing a valid RoomXY and deserializing
\* the result in the same mode succeeds and yields an equal RoomXY.  Checked
\* under SpecWire.
C4_RoundTrip ==
    /\ ret.op = "serialize" => RoomXY_deserialize(ret.val) = Ok(ret.arg.xy)
    /\ ret.op = "deserialize" =>
           /\ ret.kind = "ok"
           /\ pos = ret.val
           /\ RoomXY_serialize(ret.val, ret.arg.human) = Ok(ret.arg)

C4_Witness ==
    /\ ret.op = "deserialize"
    /\ wire = <<ret.arg>>
    /\ ~ret.arg.human
    /\ ret.kind = "ok"
    /\ ret.val = RoomXY(3, 49)

\* C5: compact-mode deserialization fails iff the high byte or the low byte
\* of the u16 is >= ROOM_SIZE, and otherwise succeeds with x the high byte
\* and y the low byte.  Checked under SpecDecode, for every u16.
C5_DecodeRejects ==
    ret.op = "deserialize" /\ ~ret.arg.human =>
        LET hi == ret.arg.packed \div (2^8)
            lo == ret.arg.packed % (2^8)
        IN  /\ ret.kind \in {"ok", "err"}
            /\ ret.kind = "err" <=> (hi >= ROOM_SIZE \/ lo >= ROOM_SIZE)
            /\ ret.kind = "ok" => ret.val = RoomXY(hi, lo) /\ pos = ret.val

C5_Witness ==
    /\ ret.op = "deserialize"
    /\ ret.arg = Packed((3 * (2^8)) + 2^7 + 3)
    /\ ret.kind = "err"

\* C6: a failed compact-mode decode carries the byte that is out of range:
\* the high byte when it is >= ROOM_SIZE, otherwise the low byte; never a byte
\* in range and never the whole u16.  (50 << 8) | 3 fails with 50.  Checked
\* under SpecDecode, for every u16.
C6_DecodeError ==
    ret.op = "deserialize" /\ ~ret.arg.human /\ ret.kind = "err" =>
        LET hi == ret.arg.packed \div (2^8)
            lo == ret.arg.packed % (2^8)
        IN  /\ ret.val >= ROOM_SIZE
            /\ ret.val < 2^8
            /\ ret.val = IF hi >= ROOM_SIZE THEN hi ELSE lo
            /\ ret.arg.packed = (50 * (2^8)) + 3 => ret.val = 50

C6_Witness ==
    /\ ret.op = "deserialize"
    /\ ret.arg = Packed(BitOr(Shl16(50, 8), 3))
    /\ ret.kind = "err"
    /\ ret.val = 50

\* C7: linear_index_to_xy panics on every index >= ROOM_AREA, in the debug
\* and in the release profile alike, returning neither a RoomXY nor an error
\* value; on every index < ROOM_AREA it does not panic.  Checked under
\* SpecIndex.
C7_IndexPanics ==
    ret.op = "linear_index_to_xy" =>
        /\ ret.kind \in {"ok", "panic"}
        /\ ret.kind = "panic" <=> ret.arg >= ROOM_AREA

C7_Witness ==
    /\ ret.op = "linear_index_to_xy"
    /\ build = "release"
    /\ ret.arg = ROOM_AREA
    /\ ret.kind = "panic"

\* C8: control_points_for_gcl(0) panics on the underflow of level - 1, and
\* control_points_for_gcl(level) returns a value for every level >= 1.
\* Checked under SpecMath.
C8_GclZeroPanics ==
    ret.op = "control_points_for_gcl" =>
        /\ ret.arg = FromNat(0) => ret.kind = "panic"
        /\ ret.arg # FromNat(0) => ret.kind = "ok"

\* C9: power_for_gpl(level) returns exactly level^2 * 1000 for every u32
\* level, no step of the 128-bit computation overflowing: it agrees with the
\* product in unbounded arithmetic, with machine arithmetic on the small
\* levels and with the values of the tests (0 for 0, and
\* 18_446_744_065_119_617_025_000 for u32::MAX); the result fits 64 bits up to
\* level 135_818_791 and no longer from 135_818_792.  Checked under SpecMath.
C9_GplExact ==
    ret.op = "power_for_gpl" =>
        /\ ret.kind = "ok"
        /\ Fits(ret.val, 128)
        /\ ret.val = Norm(MulSmall(MulExact(ret.arg, ret.arg), 1000, 0))
        /\ \A n \in 0 .. MaxLevel : ret.arg = FromNat(n) => ret.val = FromNat(n * n * 1000)
        /\ \A t \in GplTable : ret.arg = t[1] => ret.val = t[2]
        /\ ret.arg = FromNat(0) => ret.val = FromNat(0)
        /\ ret.arg = U32_MAX => ret.val = Dec(<<18, 446, 744, 065, 119, 617, 025, 000>>)
        /\ Fits(ret.val, 64) <=> Less(ret.arg, Dec(<<135, 818, 792>>))

C9_Witness ==
    /\ ret.op = "power_for_gpl"
    /\ ret.arg = U32_MAX
    /\ ret.kind = "ok"
    /\ ~Fits(ret.val, 64)

\* C10: the compact encoding of a valid RoomXY p is the u16 (p.x << 8) | p.y,
\* x in bits 15-8 and y in bits 7-0: the fields do not overlap, p is recovered
\* from the two bytes (so distinct positions have distinct encodings), and the
\* packed form is emitted iff the serializer is not human-readable, the
\* {x, y} struct otherwise.  Checked under SpecWire.
C10_PackedLayout ==
    ret.op = "serialize" =>
        LET p == ret.arg.xy
        IN  /\ ret.kind = "ok"
            /\ ret.val.human <=> ret.arg.human
            /\ ret.arg.human => ret.val = Readable(p.x, p.y)
            /\ ~ret.arg.human =>
                   /\ ret.val.packed \in U16
                   /\ ret.val.packed = (p.x * (2^8)) + p.y
                   /\ ret.val.packed \div (2^8) = p.x
                   /\ ret.val.packed % (2^8) = p.y
                   /\ BitAnd(Shl16(p.x, 8), p.y) = 0
            /\ wire = <<ret.val>>

C10_Witness ==
    /\ ret.op = "serialize"
    /\ ~ret.arg.human
    /\ ret.arg.xy = RoomXY(49, 3)
    /\ ret.val = Packed((49 * (2^8)) + 3)

\* C11: for every v < ROOM_SIZE, RoomCoordinate::unchecked_new(v) does not
\* fail and returns the coordinate RoomCoordinate::new(v) returns in Ok; for
\* every v >= ROOM_SIZE it aborts on the debug assertion in a debug build, and
\* so does RoomXY::unchecked_new when x or y is >= ROOM_SIZE; inside
\* linear_index_to_xy the assertion never fires, since for idx < ROOM_AREA
\* both idx / ROOM_SIZE and idx % ROOM_SIZE are < ROOM_SIZE and unchanged by
\* the cast to u8.  Checked under SpecUnchecked.
C11_Unchecked ==
    /\ ret.op = "unchecked_new" =>
           /\ ret.arg < ROOM_SIZE =>
                  /\ ret.kind = "ok"
                  /\ RoomCoordinate_new(ret.arg) = Ok(ret.val)
                  /\ coord = ret.val
           /\ ret.arg >= ROOM_SIZE /\ build = "debug" => ret.kind = "panic"
    /\ ret.op = "unchecked_new_xy" =>
           /\ ret.arg[1] < ROOM_SIZE /\ ret.arg[2] < ROOM_SIZE =>
                  /\ ret.kind = "ok"
                  /\ RoomXY_try_from(ret.arg) = Ok(ret.val)
           /\ (ret.arg[1] >= ROOM_SIZE \/ ret.arg[2] >= ROOM_SIZE) /\ build = "debug" =>
                  ret.kind = "panic"
    /\ ret.op = "linear_index_to_xy" /\ ret.arg < ROOM_AREA =>
           /\ ret.arg \div ROOM_SIZE < ROOM_SIZE
           /\ ret.arg % ROOM_SIZE < ROOM_SIZE
           /\ as_u8(ret.arg \div ROOM_SIZE) = ret.arg \div ROOM_SIZE
           /\ as_u8(ret.arg % ROOM_SIZE) = ret.arg % ROOM_SIZE
           /\ ret.kind = "ok"
           /\ ret.val = RoomXY(ret.arg \div ROOM_SIZE, ret.arg % ROOM_SIZE)

C11_Witness ==
    /\ ret.op = "unchecked_new_xy"
    /\ build = "debug"
    /\ ret.arg = <<3, ROOM_SIZE>>
    /\ ret.kind = "panic"

====
